---- MODULE Spec2Model ----
\* VGASimulatorPanel (VGASimulatorPanel.ts), the command that drives it
\* (extension.ts) and compileVerilator (verilator/compile.ts), as one state
\* machine over the Node event loop: every action is one run-to-completion
\* piece of a handler (a webview message, a setImmediate callback, the part of
\* an async function between two awaits).
EXTENDS Integers, Sequences, FiniteSets, TLC

\* ---------------------------------------------------------------- bounds
MaxCompiles == 2   \* compileSources invocations on the panel
MaxFrames == 2     \* pixel buffers allocated by renderLoop
MaxDiag == 1       \* diagnostics the ErrorParser holds after callMain
MaxPanels == 4     \* VGASimulatorPanel objects constructed by createOrShow
MaxReveals == 2    \* panel.reveal calls on one panel

\* ------------------------------------------------------- program constants
VGA_WIDTH == 736
VGA_HEIGHT == 520

Compiles == 1..MaxCompiles

Panels == 1..MaxPanels

\* the panel whose fields the variables mod .. originalExit are
ThisPanel == 1

VARIABLES
  mod,           \* this.mod: 0 is null, else the id of the instance
  running,       \* this.running
  syncPolarity,  \* this.syncPolarity; field "by" records the instance a
                 \* detected value comes from (0: the field initialiser)
  currentPanel,  \* VGASimulatorPanel.currentPanel is this panel
  modState,      \* what has happened to the instance this.mod refers to
                 \* (an instance the panel has let go of is out of reach)
  nInst,         \* HDLModuleWASM instances constructed so far
  cpc,           \* position of each compileSources invocation
  cinst,         \* the instance whose init() an invocation awaits
  pending,       \* setImmediate(() => this.renderLoop()) callbacks queued
  inflight,      \* the renderVGAFrame call that has started and not returned
  nBuf,          \* Uint8Array buffers allocated so far
  frames,        \* buffers whose content was posted as a 'frame'
  thrown,        \* buffers whose render threw
  stale,         \* the invocations that were in progress when 'stop' was
                 \* handled, until one begun after it reaches startSimulation
                 \* (recorded under SpecStop only)
  calls,         \* operations on instances started in the step just taken
  posts,         \* webview.postMessage calls of the step just taken
  escaped,       \* the step just taken ended with an exception nobody caught
  res,           \* what compileVerilator gave the step just taken
  processExit,   \* process.exit: "original" is the function it was before
                 \* the first compileSources, "interceptor" the throwing one
                 \* an invocation installed (they all behave alike)
  originalExit,  \* the originalExit constant of each invocation in progress
  panelState,    \* of each VGASimulatorPanel: "none" (not constructed), "open",
                 \* or "disposed" (its WebviewPanel is disposed)
  currentId,     \* VGASimulatorPanel.currentPanel: 0 is undefined
  returned,      \* what the last createOrShow returned (0: none yet)
  reveals        \* panel.reveal calls made on each panel

vars == <<mod, running, syncPolarity, currentPanel, modState, nInst, cpc, cinst,
          pending, inflight, nBuf, frames, thrown, stale, calls, posts,
          escaped, res, processExit, originalExit, panelState, currentId,
          returned, reveals>>

\* the fields of ThisPanel and what its handlers leave behind
fieldVars == <<mod, running, syncPolarity, modState, nInst, cpc, cinst, pending,
               inflight, nBuf, frames, thrown, stale, calls, posts, escaped,
               res, processExit, originalExit>>

panelVars == <<panelState, currentId, returned, reveals>>

exitVars == <<processExit, originalExit>>

\* ------------------------------------------------------------ data
DefaultPolarity == [hsyncActiveLow |-> FALSE, vsyncActiveLow |-> FALSE, by |-> 0]

Detected(h, v, m) == [hsyncActiveLow |-> h, vsyncActiveLow |-> v, by |-> m]

NewInst == [inited |-> FALSE, disposals |-> 0, failed |-> FALSE,
            detected |-> FALSE, synced |-> FALSE]

NoRender == [inst |-> 0, buf |-> 0, caller |-> 0]

NoRes == [threw |-> FALSE, output |-> FALSE, errors |-> <<>>, xmlFails |-> FALSE]

StatusMsg(text) == [command |-> "status", text |-> text]

ErrorMsg(text) == [command |-> "error", text |-> text]

\* Buffer.from(pixels.buffer).toString('base64'): 4 characters per 3 bytes,
\* the last group padded with '='.
Base64Len(n) == 4 * ((n + 2) \div 3)

Base64Pad(n) == (3 - (n % 3)) % 3

\* atob() in the webview: 3 bytes per 4 characters less the padding.
AtobLen(len, pad) == 3 * (len \div 4) - pad

FrameMsg(buf, bytes) ==
  [command |-> "frame", width |-> VGA_WIDTH, height |-> VGA_HEIGHT,
   buf |-> buf, pixels |-> Base64Len(bytes), pad |-> Base64Pad(bytes)]

\* new Uint8Array(VGA_WIDTH * VGA_HEIGHT * 4)
PixelBytes == VGA_WIDTH * VGA_HEIGHT * 4

AllocPixelsShared(n) == 1

\* the buffer renderLoop renders into: a new array on every call
AllocPixels(n) == n + 1

PostedBufs(ps) == {ps[k].buf : k \in {j \in DOMAIN ps : ps[j].command = "frame"}}

\* ------------------------------------------------------------ scheduling
AwaitPointsWithRender == {"awaitCompile", "awaitInit", "inRender"}

\* the places where a handler gives the event loop back: the two awaits of
\* compileSources/initModule. renderVGAFrame is called without await.
AwaitPoints == {"awaitCompile", "awaitInit"}

\* a handler is on the stack: nothing else runs until it returns
Busy == inflight # NoRender /\ "inRender" \notin AwaitPoints

\* ------------------------------------------------------------ kernel calls
KernelSeq == <<"resetModule", "detectSyncPolarity", "resetModule", "skipToFrameBoundary">>

KernelOps == {"resetModule", "detectSyncPolarity", "skipToFrameBoundary", "renderVGAFrame"}

\* a call of op on instance m, with what had happened to m before
Call(st, op, m, ok) ==
  [op |-> op, inst |-> m, ok |-> ok,
   inited |-> m # 0 /\ st.inited,
   disposed |-> m # 0 /\ st.disposals > 0,
   failed |-> m # 0 /\ st.failed]

Min(a, b) == IF a < b THEN a ELSE b

\* resetModule; detectSyncPolarity; resetModule; skipToFrameBoundary on m, the
\* failAt-th of them throwing (5: none throws)
ResetDetectSync(st, m, failAt) ==
  [k \in 1..Min(failAt, 4) |-> Call(st, KernelSeq[k], m, k < failAt)]

AfterSeq(st, m, failAt) ==
  IF m = 0 THEN st
  ELSE [st EXCEPT !.failed = @ \/ failAt <= 4,
                  !.detected = @ \/ failAt > 2,
                  !.synced = @ \/ failAt = 5]

PolarityAfterGuess(old, m, failAt, p) ==
  IF failAt > 2 THEN Detected(p[1], p[2], m) ELSE DefaultPolarity

\* this.syncPolarity = detectSyncPolarity(this.mod), reached when the first
\* resetModule and the detection returned
PolarityAfter(old, m, failAt, p) ==
  IF failAt > 2 THEN Detected(p[1], p[2], m) ELSE old

\* the <<hsyncActiveLow, vsyncActiveLow>> results drawn for detectSyncPolarity
\* when the sequence gets that far: the usual VGA levels, which are not those
\* of the field initialiser
Levels(failAt) ==
  IF failAt > 2 THEN {<<TRUE, TRUE>>} ELSE {<<FALSE, FALSE>>}

ModAfterDisposeKept(m) == m

\* this.mod.dispose(); this.mod = null
ModAfterDispose(m) == 0

\* if (this.mod) { this.mod.dispose(); ... }
DisposeCalls(st, m) == IF m = 0 THEN <<>> ELSE <<Call(st, "dispose", m, TRUE)>>

AfterDispose(st, m) ==
  IF m = 0 THEN st ELSE [st EXCEPT !.disposals = @ + 1]

\* the record that goes with this.mod = m
StateOf(st, m) == IF m = 0 THEN NewInst ELSE st

\* ------------------------------------------------------------ initial state
FieldsInit ==
  /\ mod = 0
  /\ running = FALSE
  /\ syncPolarity = DefaultPolarity
  /\ modState = NewInst
  /\ nInst = 0
  /\ cpc = [c \in Compiles |-> "idle"]
  /\ cinst = [c \in Compiles |-> 0]
  /\ pending = 0
  /\ inflight = NoRender
  /\ nBuf = 0
  /\ frames = {}
  /\ thrown = {}
  /\ stale = {}
  /\ calls = <<>>
  /\ posts = <<>>
  /\ escaped = FALSE
  /\ res = NoRes
  /\ processExit = "original"
  /\ originalExit = [c \in Compiles |-> "original"]

\* createOrShow has constructed ThisPanel and the command holds it
Init ==
  /\ FieldsInit
  /\ currentPanel = TRUE
  /\ panelState = [p \in Panels |-> IF p = ThisPanel THEN "open" ELSE "none"]
  /\ currentId = ThisPanel
  /\ returned = ThisPanel
  /\ reveals = [p \in Panels |-> 0]

\* ------------------------------------------------------------ compileVerilator
DiagTypes == {"error", "warning"}

\* what the ErrorParser has collected from printErr during callMain
DiagSeqs == UNION {[1..n -> DiagTypes] : n \in 0..MaxDiag}

IsError(t) == t = "error"

IsWarning(t) == t = "warning"

Result(threw, output, errors, xmlFails) ==
  [threw |-> threw, output |-> output, errors |-> errors, xmlFails |-> xmlFails]

compileVerilatorNoErrorCheck(setupThrows, diags, callMainThrows, xmlFails) ==
  IF setupThrows THEN Result(TRUE, FALSE, <<>>, FALSE)
  ELSE LET errors == IF callMainThrows THEN Append(diags, "error") ELSE diags
       IN IF xmlFails
          THEN Result(FALSE, FALSE, Append(errors, "error"), TRUE)
          ELSE Result(FALSE, TRUE, errors, FALSE)

\* setupThrows: the wasm binary cannot be read, verilatorInst.ready rejects or
\* the FS calls throw, and the promise rejects. callMainThrows: callMain throws
\* (the intercepted process.exit included) and an 'error' entry is pushed.
\* xmlFails: FS.readFile or xmlParser.parse throws. Field xmlFails of the
\* result records that the XML step was reached and threw.
compileVerilator(setupThrows, diags, callMainThrows, xmlFails) ==
  IF setupThrows THEN Result(TRUE, FALSE, <<>>, FALSE)
  ELSE LET errors == IF callMainThrows THEN Append(diags, "error") ELSE diags
       IN IF Len(SelectSeq(errors, IsError)) > 0
          THEN Result(FALSE, FALSE, errors, FALSE)
          ELSE IF xmlFails
               THEN Result(FALSE, FALSE, Append(errors, "error"), TRUE)
               ELSE Result(FALSE, TRUE, errors, FALSE)

\* ------------------------------------------------------------ the panel
\* stopSimulation(); postMessage 'Compiling...'; compileVerilator is called and
\* awaited. The command calls createOrShow and compileSources back to back, so
\* an invocation starts on the panel only while it is the current panel.
CompileSources(c) ==
  /\ ~Busy
  /\ currentPanel
  /\ cpc[c] = "idle"
  /\ \A d \in Compiles : d < c => cpc[d] # "idle"
  /\ running' = FALSE
  /\ cpc' = [cpc EXCEPT ![c] = "awaitCompile"]
  /\ posts' = <<StatusMsg("Compiling...")>>
  /\ originalExit' = [originalExit EXCEPT ![c] = processExit]
  /\ processExit' = "interceptor"
  /\ calls' = <<>>
  /\ escaped' = FALSE
  /\ res' = NoRes
  /\ UNCHANGED panelVars
  /\ UNCHANGED <<mod, syncPolarity, currentPanel, modState, nInst, cinst,
                 pending, inflight, nBuf, frames, thrown, stale>>

\* finally { process.exit = originalExit; } of invocation c, whose constant
\* then goes out of scope
Finally(c) ==
  /\ processExit' = originalExit[c]
  /\ originalExit' = [originalExit EXCEPT ![c] = "original"]

\* the catch block and the compile-error branch: one 'error' message, then the
\* invocation is over
Fail(c, text) ==
  /\ posts' = <<ErrorMsg(text)>>
  /\ cpc' = [cpc EXCEPT ![c] = "done"]
  /\ stale' = stale \ {c}
  /\ Finally(c)

\* the continuation after `await compileVerilator`, up to `await this.mod.init()`
CompileDone(c) ==
  /\ ~Busy
  /\ cpc[c] = "awaitCompile"
  /\ \E setupThrows \in BOOLEAN :
     \E callMainThrows, xmlFails \in (IF setupThrows THEN {FALSE} ELSE BOOLEAN),
        diags \in (IF setupThrows THEN {<<>>} ELSE DiagSeqs) :
     \E ctorThrows \in IF compileVerilator(setupThrows, diags, callMainThrows, xmlFails).output
                       THEN BOOLEAN ELSE {FALSE} :
       /\ res' = compileVerilator(setupThrows, diags, callMainThrows, xmlFails)
       /\ IF res'.threw
          THEN /\ Fail(c, "Error")
               /\ calls' = <<>>
               /\ UNCHANGED <<mod, modState, nInst, cinst>>
          ELSE IF ~res'.output
          THEN /\ Fail(c, "Compilation Error")
               /\ calls' = <<>>
               /\ UNCHANGED <<mod, modState, nInst, cinst>>
          ELSE /\ calls' = DisposeCalls(modState, mod)
               /\ modState' = NewInst
               /\ IF ctorThrows
                  THEN /\ Fail(c, "Error")
                       /\ mod' = 0
                       /\ UNCHANGED <<nInst, cinst>>
                  ELSE /\ mod' = nInst + 1
                       /\ nInst' = nInst + 1
                       /\ cinst' = [cinst EXCEPT ![c] = nInst + 1]
                       /\ cpc' = [cpc EXCEPT ![c] = "awaitInit"]
                       /\ posts' = <<>>
                       /\ UNCHANGED <<stale, exitVars>>
  /\ escaped' = FALSE
  /\ UNCHANGED panelVars
  /\ UNCHANGED <<running, syncPolarity, currentPanel, pending, inflight, nBuf,
                 frames, thrown>>

\* renderLoop up to the call of renderVGAFrame: a fresh buffer, the current
\* instance and the current polarity
BeginRender(c, before, st) ==
  /\ nBuf < MaxFrames
  /\ nBuf' = nBuf + 1
  /\ inflight' = [inst |-> mod, buf |-> AllocPixels(nBuf), caller |-> c]
  /\ calls' = before \o <<Call(st, "renderVGAFrame", mod, TRUE)>>

\* the continuation after `await this.mod.init()`: the rest of initModule on
\* whatever this.mod is by now, then 'Running' and startSimulation, which calls
\* renderLoop. With this.mod null (the panel was disposed meanwhile) the first
\* resetModule throws.
InitDone(c) ==
  /\ ~Busy
  /\ cpc[c] = "awaitInit"
  /\ \E initOk \in BOOLEAN : \E failAt \in (IF initOk THEN 1..5 ELSE {1}) :
     \E p \in Levels(IF initOk /\ mod # 0 THEN failAt ELSE 1) :
       IF ~initOk
       THEN /\ Fail(c, "Error")
            /\ calls' = <<>>
            /\ UNCHANGED <<modState, syncPolarity, running, inflight, nBuf>>
       ELSE LET st == IF cinst[c] = mod THEN [modState EXCEPT !.inited = TRUE]
                      ELSE modState
                fa == IF mod = 0 THEN 1 ELSE failAt
                seq == ResetDetectSync(st, mod, fa)
            IN /\ modState' = AfterSeq(st, mod, fa)
               /\ syncPolarity' = PolarityAfter(syncPolarity, mod, fa, p)
               /\ IF fa <= 4
                  THEN /\ Fail(c, "Error")
                       /\ calls' = seq
                       /\ UNCHANGED <<running, inflight, nBuf>>
                  ELSE /\ posts' = <<StatusMsg("Running")>>
                       /\ stale' = IF c \in stale THEN stale \ {c} ELSE {}
                       /\ IF running
                          THEN /\ cpc' = [cpc EXCEPT ![c] = "done"]
                               /\ Finally(c)
                               /\ calls' = seq
                               /\ UNCHANGED <<running, inflight, nBuf>>
                          ELSE /\ running' = TRUE
                               /\ cpc' = [cpc EXCEPT ![c] = "inRender"]
                               /\ UNCHANGED exitVars
                               /\ BeginRender(c, seq, AfterSeq(st, mod, fa))
  /\ escaped' = FALSE
  /\ res' = NoRes
  /\ UNCHANGED panelVars
  /\ cinst' = [cinst EXCEPT ![c] = 0]
  /\ UNCHANGED <<mod, currentPanel, nInst, pending, frames, thrown>>

RenderLoopIgnoresRunning(r, m) == m = 0

\* if (!this.running || !this.mod) return;
RenderLoopReturnsEarly(r, m) == ~r \/ m = 0

\* a setImmediate callback runs renderLoop
RenderLoop ==
  /\ ~Busy
  /\ pending > 0
  /\ pending' = pending - 1
  /\ posts' = <<>>
  /\ IF RenderLoopReturnsEarly(running, mod)
     THEN /\ calls' = <<>>
          /\ UNCHANGED <<inflight, nBuf>>
     ELSE BeginRender(0, <<>>, modState)
  /\ escaped' = FALSE
  /\ res' = NoRes
  /\ UNCHANGED panelVars
  /\ UNCHANGED <<mod, running, syncPolarity, currentPanel, modState, nInst, cpc,
                 cinst, frames, thrown, stale, exitVars>>

RenderPostsNoReturn(ok, buf) ==
  IF ok THEN <<FrameMsg(buf, PixelBytes)>>
  ELSE <<ErrorMsg("Simulation error"), FrameMsg(buf, PixelBytes)>>

\* the catch block posts 'error' and returns; otherwise the frame is posted
RenderPosts(ok, buf) ==
  IF ok THEN <<FrameMsg(buf, PixelBytes)>> ELSE <<ErrorMsg("Simulation error")>>

\* renderVGAFrame returns or throws, and renderLoop runs to its end; when
\* startSimulation called it, compileSources then runs to its end too
RenderReturn ==
  /\ inflight # NoRender
  /\ \E ok \in BOOLEAN :
       /\ posts' = RenderPosts(ok, inflight.buf)
       /\ frames' = frames \cup PostedBufs(posts')
       /\ IF ok
          THEN /\ pending' = IF running THEN pending + 1 ELSE pending
               /\ UNCHANGED <<running, modState, thrown>>
          ELSE /\ running' = FALSE
               /\ modState' = IF inflight.inst = mod
                              THEN [modState EXCEPT !.failed = TRUE]
                              ELSE modState
               /\ thrown' = thrown \cup {inflight.buf}
               /\ UNCHANGED pending
  /\ inflight' = NoRender
  /\ calls' = <<>>
  /\ escaped' = FALSE
  /\ res' = NoRes
  /\ IF inflight.caller = 0
     THEN UNCHANGED <<cpc, exitVars>>
     ELSE /\ cpc' = [cpc EXCEPT ![inflight.caller] = "done"]
          /\ Finally(inflight.caller)
  /\ UNCHANGED panelVars
  /\ UNCHANGED <<mod, syncPolarity, currentPanel, nInst, cinst, nBuf, stale>>

\* message 'stop': stopSimulation(). record: keep the history variable stale.
StopMessage(record) ==
  /\ ~Busy
  /\ currentPanel
  /\ running' = FALSE
  /\ stale' = IF record THEN {c \in Compiles : cpc[c] \in AwaitPoints} ELSE stale
  /\ calls' = <<>>
  /\ posts' = <<>>
  /\ escaped' = FALSE
  /\ res' = NoRes
  /\ UNCHANGED panelVars
  /\ UNCHANGED <<mod, syncPolarity, currentPanel, modState, nInst, cpc, cinst,
                 pending, inflight, nBuf, frames, thrown, exitVars>>

Stop == StopMessage(FALSE)

StopRecorded == StopMessage(TRUE)

\* message 'reset': the four kernel calls on this.mod, outside any try
Reset ==
  /\ ~Busy
  /\ currentPanel
  /\ posts' = <<>>
  /\ res' = NoRes
  /\ IF mod = 0
     THEN /\ calls' = <<>>
          /\ escaped' = FALSE
          /\ UNCHANGED <<modState, syncPolarity>>
     ELSE \E failAt \in 1..5 : \E p \in Levels(failAt) :
            /\ calls' = ResetDetectSync(modState, mod, failAt)
            /\ escaped' = (failAt <= 4)
            /\ modState' = AfterSeq(modState, mod, failAt)
            /\ syncPolarity' = PolarityAfter(syncPolarity, mod, failAt, p)
  /\ UNCHANGED panelVars
  /\ UNCHANGED <<mod, running, currentPanel, nInst, cpc, cinst, pending,
                 inflight, nBuf, frames, thrown, stale, exitVars>>

\* VGASimulatorPanel.currentPanel = undefined, in the dispose() of panel p,
\* which onDidDispose runs when the WebviewPanel of p is disposed
DisposePanel(p) ==
  /\ currentId' = 0
  /\ panelState' = [panelState EXCEPT ![p] = "disposed"]

\* onDidDispose runs dispose(). reenter: this.panel.dispose() fires
\* onDidDispose again and dispose() runs nested, on the fields as they are then.
Dispose ==
  /\ ~Busy
  /\ currentPanel
  /\ \E reenter \in BOOLEAN :
       LET m1 == IF mod = 0 THEN 0 ELSE ModAfterDispose(mod)
           t1 == AfterDispose(modState, mod)
       IN /\ calls' = DisposeCalls(modState, mod)
                      \o (IF reenter THEN DisposeCalls(t1, m1) ELSE <<>>)
          /\ mod' = IF reenter /\ m1 # 0 THEN ModAfterDispose(m1) ELSE m1
          /\ modState' = StateOf(IF reenter THEN AfterDispose(t1, m1) ELSE t1, mod')
  /\ currentPanel' = FALSE
  /\ running' = FALSE
  /\ posts' = <<>>
  /\ escaped' = FALSE
  /\ res' = NoRes
  /\ DisposePanel(ThisPanel)
  /\ UNCHANGED <<returned, reveals>>
  /\ UNCHANGED <<syncPolarity, nInst, cpc, cinst, pending, inflight, nBuf,
                 frames, thrown, stale, exitVars>>

Handlers ==
  \/ \E c \in Compiles : CompileSources(c)
  \/ \E c \in Compiles : CompileDone(c)
  \/ \E c \in Compiles : InitDone(c)
  \/ RenderLoop
  \/ RenderReturn
  \/ Reset
  \/ Dispose

Next == Handlers \/ Stop

Spec == Init /\ [][Next]_vars

\* the same program, with the history of 'stop' messages kept in stale
NextStop == Handlers \/ StopRecorded

SpecStop == Init /\ [][NextStop]_vars

\* ------------------------------------------------------------ createOrShow
\* no panel has been constructed yet
InitPanels ==
  /\ FieldsInit
  /\ currentPanel = FALSE
  /\ panelState = [p \in Panels |-> "none"]
  /\ currentId = 0
  /\ returned = 0
  /\ reveals = [p \in Panels |-> 0]

ExistingPanelIgnored(cur) == 0

\* if (VGASimulatorPanel.currentPanel) { ... return it }
ExistingPanel(cur) == cur

NewPanel == Cardinality({p \in Panels : panelState[p] # "none"}) + 1

\* the command calls createOrShow: the current panel is revealed and returned,
\* or a panel is constructed, made current and returned
CreateOrShow ==
  /\ IF ExistingPanel(currentId) # 0
     THEN /\ reveals[currentId] < MaxReveals
          /\ reveals' = [reveals EXCEPT ![currentId] = @ + 1]
          /\ returned' = currentId
          /\ UNCHANGED <<panelState, currentId>>
     ELSE /\ NewPanel <= MaxPanels
          /\ panelState' = [panelState EXCEPT ![NewPanel] = "open"]
          /\ currentId' = NewPanel
          /\ returned' = NewPanel
          /\ UNCHANGED reveals
  /\ currentPanel' = (currentId' = ThisPanel)
  /\ UNCHANGED fieldVars

\* the WebviewPanel of p is closed; onDidDispose runs the dispose() of p
ClosePanel(p) ==
  /\ panelState[p] = "open"
  /\ DisposePanel(p)
  /\ currentPanel' = (currentId' = ThisPanel)
  /\ UNCHANGED <<returned, reveals>>
  /\ UNCHANGED fieldVars

NextPanels ==
  \/ CreateOrShow
  \/ \E p \in Panels : ClosePanel(p)

SpecPanels == InitPanels /\ [][NextPanels]_vars

\* ------------------------------------------------------------ properties
Rendering == inflight # NoRender

PostsFrame(ps) == PostedBufs(ps) # {}

PostsError(ps) == \E k \in DOMAIN ps : ps[k].command = "error"

\* only the first compileSources invocation was ever made, and it is over
OneCompileOver == cpc[1] = "done" /\ \A c \in Compiles : c > 1 => cpc[c] = "idle"

\* C1: a renderLoop that called renderVGAFrame posts exactly one message when
\* the call is over: the 'frame' of its own buffer if it returned, an 'error'
\* if it threw; a 'frame' is posted by no other step, and no buffer whose
\* render threw is among the posted frames.
C1_RenderAtomic ==
  /\ [](frames \cap thrown = {})
  /\ [][/\ (Rendering /\ ~Rendering') =>
             /\ Len(posts') = 1
             /\ inflight.buf \notin thrown' =>
                  posts'[1].command = "frame" /\ posts'[1].buf = inflight.buf
             /\ inflight.buf \in thrown' => posts'[1].command = "error"
        /\ PostsFrame(posts') =>
             Rendering /\ ~Rendering' /\ inflight.buf \notin thrown']_vars

\* a render threw after an earlier one was posted, and only the error went out
C1_Witness ==
  /\ posts = <<ErrorMsg("Simulation error")>>
  /\ thrown # {} /\ frames # {}
  /\ ~running

\* C2: a render is called only on an instance on which detectSyncPolarity and
\* then skipToFrameBoundary have returned, with the polarity detected on that
\* very instance.
C2_PolarityBeforeRender ==
  Rendering =>
    /\ inflight.inst = mod
    /\ modState.detected
    /\ modState.synced
    /\ syncPolarity.by = inflight.inst

\* C3: no kernel operation is started on an instance on which one has thrown.
C3_UnusableAfterError ==
  \A k \in DOMAIN calls : calls[k].op \in KernelOps => ~calls[k].failed

\* C4: a throwing kernel call is caught by the panel, which posts an 'error';
\* nothing leaves a command, message or setImmediate callback uncaught.
C4_NoUncaught ==
  /\ ~escaped
  /\ (\E k \in DOMAIN calls : ~calls[k].ok) => PostsError(posts)

\* C5: while a renderVGAFrame call is in flight on an instance no step starts
\* another operation (kernel call or dispose) on that instance.
C5_SingleInFlight ==
  [][Rendering => \A k \in DOMAIN calls' : calls'[k].inst # inflight.inst]_vars

\* a render is in flight from a setImmediate callback while the panel can get
\* messages and a compileSources invocation awaits its compilation or init()
C5_Witness ==
  /\ Rendering /\ inflight.caller = 0
  /\ currentPanel
  /\ \E c \in Compiles : cpc[c] \in AwaitPoints

\* C6 as stated: with running false a renderLoop callback returns without a
\* render and without a successor, a render that returns posts its frame, and
\* a render is started again only by a compileSources invocation that began
\* after the 'stop'.
C6_StopUntilLaterCompile ==
  [][/\ (~running /\ pending' < pending) =>
          ~Rendering' /\ pending' = pending - 1 /\ posts' = <<>>
     /\ (Rendering /\ ~Rendering' /\ inflight.buf \notin thrown') =>
          inflight.buf \in PostedBufs(posts')
     /\ (~running /\ ~Rendering /\ Rendering') =>
          \E c \in Compiles \ stale : cpc[c] = "awaitInit" /\ cpc'[c] = "inRender"]_vars

\* C6 as amended: the render is started again only by a compileSources
\* invocation reaching startSimulation, one that was already in progress at
\* the 'stop' included; while running is false no frame is posted.
C6_StopBetweenFrames ==
  [][/\ (~running /\ pending' < pending) =>
          ~Rendering' /\ pending' = pending - 1 /\ posts' = <<>>
     /\ (Rendering /\ ~Rendering' /\ inflight.buf \notin thrown') =>
          inflight.buf \in PostedBufs(posts')
     /\ (~running /\ ~Rendering /\ Rendering') =>
          \E c \in Compiles : cpc[c] = "awaitInit" /\ cpc'[c] = "inRender"
     /\ (~running /\ ~Rendering) => ~PostsFrame(posts')]_vars

\* the loop had posted a frame and queued its callback, a 'stop' came (nothing
\* else clears running here), and the callback ran and returned early
C6_Witness ==
  /\ ~running /\ pending = 0
  /\ frames # {} /\ thrown = {}
  /\ mod # 0 /\ currentPanel
  /\ OneCompileOver

\* C7: no operation is started on an instance after its dispose(), no instance
\* is disposed twice, and this.mod never refers to a disposed instance.
C7_NoUseAfterDispose ==
  /\ \A k \in DOMAIN calls : calls[k].inst # 0 => ~calls[k].disposed
  /\ mod # 0 => modState.disposals = 0

\* an instance was replaced and disposed while a callback was queued, and the
\* callback then rendered (on its successor)
C7_Witness ==
  /\ mod > 1
  /\ Rendering /\ inflight.caller = 0
  /\ calls # <<>> /\ calls[1].op = "renderVGAFrame" /\ calls[1].inst = mod

\* C8: compileVerilator returns an output only without 'error' diagnostics and
\* with the XML parsed; without output (and without throwing) the errors hold
\* an 'error'; the panel constructs an instance only on an output, and without
\* one the invocation ends with an 'error' message.
C8_CompileResult ==
  /\ [](res # NoRes =>
          /\ res.output => SelectSeq(res.errors, IsError) = <<>> /\ ~res.xmlFails
          /\ (~res.output /\ ~res.threw) => SelectSeq(res.errors, IsError) # <<>>)
  /\ [][nInst' # nInst => res'.output]_vars
  /\ [][\A c \in Compiles : (cpc[c] = "awaitCompile" /\ cpc'[c] # "awaitCompile") =>
          /\ cpc'[c] = "awaitInit" => res'.output
          /\ ~res'.output =>
               /\ cpc'[c] = "done" /\ PostsError(posts')
               /\ mod' = mod /\ running' = running /\ calls' = <<>>]_vars

\* a compile with a warning and no error went on to construct the instance
C8_Witness ==
  /\ res.output /\ SelectSeq(res.errors, IsWarning) # <<>>
  /\ mod # 0 /\ mod = nInst
  /\ \E c \in Compiles : cpc[c] = "awaitInit" /\ cinst[c] = mod

\* C9: every 'frame' has width VGA_WIDTH, height VGA_HEIGHT and pixels that
\* decode to VGA_WIDTH*VGA_HEIGHT*4 bytes; the buffer of a render is none that
\* was posted before.
C9_FrameShape ==
  /\ [](\A k \in DOMAIN posts : posts[k].command = "frame" =>
          /\ posts[k].width = VGA_WIDTH /\ posts[k].height = VGA_HEIGHT
          /\ AtobLen(posts[k].pixels, posts[k].pad) = VGA_WIDTH * VGA_HEIGHT * 4)
  /\ [](Rendering => inflight.buf \notin frames)
  /\ [][PostedBufs(posts') \cap frames = {}]_vars

\* two frames are out, rendered with a polarity other than the initial one
C9_Witness ==
  /\ Cardinality(frames) >= 2
  /\ PostsFrame(posts)
  /\ syncPolarity.hsyncActiveLow

\* C10: syncPolarity changes only to the result of a detectSyncPolarity that
\* follows resetModule on this.mod; a step without them (stop, renderLoop, a
\* 'reset' with this.mod null) leaves it alone; a 'reset' message changes
\* neither running nor this.mod.
C10_PolarityWrites ==
  [][/\ syncPolarity' # syncPolarity =>
          /\ Len(calls') >= 2 /\ mod # 0
          /\ calls'[1].op = "resetModule" /\ calls'[1].ok /\ calls'[1].inst = mod
          /\ calls'[2].op = "detectSyncPolarity" /\ calls'[2].ok /\ calls'[2].inst = mod
          /\ syncPolarity'.by = mod
     /\ (running' # running \/ pending' # pending \/ Rendering \/ mod = 0) /\ cpc' = cpc =>
          syncPolarity' = syncPolarity
     /\ (calls' # <<>> /\ calls'[1].op = "resetModule" /\ cpc' = cpc) =>
          running' = running /\ mod' = mod /\ pending' = pending]_vars

\* a 'reset' during the simulation detected anew and left the loop running
C10_Witness ==
  /\ Len(calls) = 4 /\ calls[4].ok
  /\ OneCompileOver
  /\ running /\ pending > 0
  /\ syncPolarity.by = mod /\ syncPolarity.hsyncActiveLow

\* C11: at most one renderLoop continuation is pending or executing: the
\* queued setImmediate callbacks and the render on the stack are one at most.
C11_OneLoopChain ==
  pending + (IF Rendering THEN 1 ELSE 0) <= 1

\* C12: resetModule, detectSyncPolarity, skipToFrameBoundary and renderVGAFrame
\* are called on an instance only after its init() has resolved.
C12_InitBeforeKernel ==
  \A k \in DOMAIN calls : calls[k].op \in KernelOps => calls[k].inited

\* no compileSources invocation is between its first and its last statement
NoCompileInProgress == \A c \in Compiles : cpc[c] \in {"idle", "done"}

\* C13: whenever no compileSources invocation is in progress, process.exit is
\* the function it was before the first compileSources began.
C13_ExitRestored ==
  NoCompileInProgress => processExit = "original"

\* C14: after the panel's dispose() has run, this.mod stays null, running
\* stays false and no renderVGAFrame is called, whatever compileSources
\* invocation completes afterwards.
C14_DisposalFinal ==
  ~currentPanel => mod = 0 /\ ~running /\ ~Rendering

\* C15: a compileSources invocation first clears running and posts
\* 'Compiling...'; it posts nothing more until it posts exactly one of 'error'
\* and 'Running'; 'Running' comes only with the four calls of initModule having
\* returned; and a 'frame' of an instance is posted only after the 'Running'
\* of the invocation that constructed it.
C15_StatusProtocol ==
  [][/\ \A c \in Compiles :
          /\ (cpc[c] = "idle" /\ cpc'[c] # "idle") =>
               ~running' /\ posts' = <<StatusMsg("Compiling...")>>
          /\ (cpc[c] = "awaitCompile" /\ cpc'[c] = "awaitInit") => posts' = <<>>
          /\ (cpc[c] \in AwaitPoints /\ cpc'[c] \notin AwaitPoints) =>
               \/ posts' = <<StatusMsg("Running")>>
               \/ Len(posts') = 1 /\ PostsError(posts')
     /\ (\E k \in DOMAIN posts' : posts'[k] = StatusMsg("Running")) =>
          /\ Len(calls') >= 4
          /\ \A k \in 1..4 : calls'[k].op = KernelSeq[k] /\ calls'[k].ok
     /\ (Rendering /\ PostsFrame(posts')) =>
          \A c \in Compiles : cinst[c] = inflight.inst => cpc[c] # "awaitInit"]_vars

OpenPanels == {p \in Panels : panelState[p] = "open"}

\* C16: at most one panel is open; currentPanel is undefined exactly when none
\* is, and is the open one otherwise; createOrShow returns the open panel when
\* there is one, without constructing another, and a new panel otherwise.
C16_OnePanel ==
  /\ [](Cardinality(OpenPanels) <= 1)
  /\ [](currentId = 0 <=> OpenPanels = {})
  /\ [](currentId # 0 => currentId \in OpenPanels)
  /\ [][(reveals' # reveals \/ \E p \in Panels : panelState[p] = "none" /\ panelState'[p] = "open") =>
          IF OpenPanels # {}
          THEN returned' \in OpenPanels /\ panelState' = panelState
          ELSE /\ panelState[returned'] = "none"
               /\ panelState' = [panelState EXCEPT ![returned'] = "open"]
               /\ currentId' = returned']_vars

\* a second panel was constructed after the first was disposed, and a later
\* createOrShow revealed and returned it
C16_Witness ==
  /\ panelState[1] = "disposed"
  /\ panelState[2] = "open"
  /\ reveals[2] > 0
  /\ returned = 2 /\ currentId = 2

====
